---- MODULE Spec2Model ----
(***************************************************************************)
(* A model of app.py, the Streamlit FAQ chatbot: the corpus loader, the    *)
(* TF-IDF index build kept in st.session_state, the retrieval function     *)
(* find_most_relevant_question, and the script body that is re-executed on *)
(* every rerun.                                                            *)
(*                                                                         *)
(* Texts are sequences of raw word tokens.  Real-valued quantities are     *)
(* kept exact: idf weights are fixed-point tenths, a tf-idf row is kept as *)
(* the un-normalised integer vector (its L2 normalisation only rescales    *)
(* it, and cosine_similarity normalises again), and a cosine is kept as    *)
(* the fraction <<num, den>> of its square, which orders the same way      *)
(* because no weight is negative.                                          *)
(***************************************************************************)
EXTENDS Integers, Sequences, FiniteSets, TLC

VARIABLES
    file,          \* the corpus file on disk (the environment)
    api_key,       \* st.session_state.api_key
    faq_data,      \* st.session_state.faq_data
    vectorizer,    \* st.session_state.vectorizer
    tfidf_matrix,  \* st.session_state.tfidf_matrix
    messages,      \* st.session_state.messages
    pc,            \* where the running script is; "idle" between runs
    prompt,        \* the script's local `prompt`
    relevant,      \* the script's locals relevant_q, relevant_a
    outcome,       \* how the latest script run (or step of it) ended
    shown,         \* whether the latest run rendered st.chat_input
    st_error,      \* the st.error raised by load_faq_data in this session
    load_src,      \* history: the file contents load_faq_data last read
    branch,        \* history: the branch this run took at `if relevant_a:`
    match_log      \* history: <<query, result>> of every completed Match

vars == <<file, api_key, faq_data, vectorizer, tfidf_matrix, messages, pc,
          prompt, relevant, outcome, shown, st_error, load_src, branch,
          match_log>>

----------------------------------------------------------------------------
(* Bounds *)

MaxCorpus == 2
MaxMsgs == 5

----------------------------------------------------------------------------
(* Text analysis of TfidfVectorizer(stop_words='english') *)

\* str.lower() on one token.
Lower(tok) ==
    CASE tok = "Return" -> "return"
      [] tok = "ORDER" -> "order"
      [] OTHER -> tok

\* The members of sklearn's English stop word list that the texts use.
StopWords == {"the", "is", "your"}

\* token_pattern (?u)\b\w\w+\b keeps tokens of two or more word characters.
ShortTokens == {"x", "I"}

RECURSIVE Analyze(_)
\* build_analyzer(): lowercase, tokenize, drop stop words.
Analyze(text) ==
    IF text = <<>> THEN <<>>
    ELSE LET t == Lower(Head(text))
             rest == Analyze(Tail(text))
         IN IF Head(text) \in ShortTokens \/ t \in StopWords
            THEN rest ELSE <<t>> \o rest

RECURSIVE Count(_, _)
\* Term frequency: occurrences of term t in an analysed text.
Count(terms, t) ==
    IF terms = <<>> THEN 0
    ELSE (IF Head(terms) = t THEN 1 ELSE 0) + Count(Tail(terms), t)

TermSet(terms) == {terms[i] : i \in 1..Len(terms)}

\* Smoothed idf, ln((1 + n) / (1 + df)) + 1, in tenths, for n documents of
\* which df hold the term (1 <= df <= n <= 5).
IdfTenths(n, df) ==
    << <<10>>, <<14, 10>>, <<17, 13, 10>>, <<19, 15, 12, 10>>,
       <<21, 17, 14, 12, 10>> >>[n][df]

RECURSIVE SumOver(_, _)
\* Sum of f[t] over the finite set S.
SumOver(f, S) ==
    IF S = {} THEN 0
    ELSE LET t == CHOOSE x \in S : TRUE
         IN f[t] + SumOver(f, S \ {t})

----------------------------------------------------------------------------
(* Session-state values *)

AbsentVectorizer == [state |-> "absent", vocabulary |-> {}, idf |-> <<>>]
UnfittedVectorizer == [state |-> "unfitted", vocabulary |-> {}, idf |-> <<>>]
AbsentMatrix == [state |-> "absent", rows |-> <<>>]

\* The documents' vocabulary; empty when every document analyses to nothing.
Vocabulary(docs) == UNION {TermSet(Analyze(docs[i])) : i \in 1..Len(docs)}

\* TfidfVectorizer.fit: the vocabulary and each term's idf.
Fit(docs) ==
    LET vocab == Vocabulary(docs)
        df(t) == Cardinality({i \in 1..Len(docs) : t \in TermSet(Analyze(docs[i]))})
    IN [state |-> "fitted", vocabulary |-> vocab,
        idf |-> [t \in vocab |-> IdfTenths(Len(docs), df(t))]]

\* TfidfVectorizer.transform on one text: tf * idf over the fitted vocabulary;
\* a term unseen at fit time has no column.
Transform(vec, text) ==
    [t \in vec.vocabulary |-> Count(Analyze(text), t) * vec.idf[t]]

\* fit_transform(questions): the matrix of the documents' rows.
FitTransform(docs) ==
    [state |-> "present",
     rows |-> [i \in 1..Len(docs) |-> Transform(Fit(docs), docs[i])]]

----------------------------------------------------------------------------
(* cosine_similarity and the comparison of its values *)

RECURSIVE FracCmp(_, _, _, _)
\* The sign of p/q - r/s for p, r >= 0 and q, s > 0, by continued fractions
\* (no product is formed, so nothing overflows).
FracCmp(p, q, r, s) ==
    LET a == p \div q
        b == r \div s
        p2 == p % q
        r2 == r % s
    IN IF a < b THEN -1
       ELSE IF a > b THEN 1
       ELSE IF p2 = 0 /\ r2 = 0 THEN 0
       ELSE IF p2 = 0 THEN -1
       ELSE IF r2 = 0 THEN 1
       ELSE FracCmp(s, r2, q, p2)

FracLess(x, y) == FracCmp(x[1], x[2], y[1], y[2]) < 0

Dot(u, v) == SumOver([t \in DOMAIN u |-> u[t] * v[t]], DOMAIN u)

\* The squared cosine of two rows as <<num, den>>; 0 when either row is zero
\* (normalize() leaves a zero row as it is).
Cosine2(u, v) ==
    LET nu == Dot(u, u)
        nv == Dot(v, v)
        d == Dot(u, v)
    IN IF nu = 0 \/ nv = 0 THEN <<0, 1>> ELSE <<d * d, nu * nv>>

\* cosine_similarity(query_tfidf, tfidf_matrix).flatten()
CosineSimilarities(qrow, matrix) ==
    [i \in 1..Len(matrix.rows) |-> Cosine2(qrow, matrix.rows[i])]

RECURSIVE ArgmaxLast(_, _, _)
\* A scan that lets a later equal value replace the best so far.
ArgmaxLast(sims, best, i) ==
    IF i > Len(sims) THEN best
    ELSE ArgmaxLast(sims, IF FracLess(sims[i], sims[best]) THEN best ELSE i, i + 1)

RECURSIVE ArgmaxFrom(_, _, _)
\* numpy's scan: position i replaces the best so far only when strictly larger.
ArgmaxFrom(sims, best, i) ==
    IF i > Len(sims) THEN best
    ELSE ArgmaxFrom(sims, IF FracLess(sims[best], sims[i]) THEN i ELSE best, i + 1)

RECURSIVE ArgminFrom(_, _, _)
ArgminFrom(sims, best, i) ==
    IF i > Len(sims) THEN best
    ELSE ArgminFrom(sims, IF FracLess(sims[i], sims[best]) THEN i ELSE best, i + 1)

\* argmin() written for argmax().
Argmin(sims) == ArgminFrom(sims, 1, 2)

\* ndarray.argmax(): the first position holding the maximum.
Argmax(sims) == ArgmaxFrom(sims, 1, 2)

\* The relevance threshold 0.2 = ThresholdNum / ThresholdDen.
ThresholdNum == 1
ThresholdDen == 5

\* `<=` written for `<`.
BelowOrAtThreshold(sim) ==
    ~FracLess(<<ThresholdNum * ThresholdNum, ThresholdDen * ThresholdDen>>, sim)

\* `>` written for `<`.
AboveThreshold(sim) ==
    FracLess(<<ThresholdNum * ThresholdNum, ThresholdDen * ThresholdDen>>, sim)

\* highest_similarity_score < 0.2, on the squared cosine.
BelowThreshold(sim) ==
    FracLess(sim, <<ThresholdNum * ThresholdNum, ThresholdDen * ThresholdDen>>)

----------------------------------------------------------------------------
(* The corpus file and load_faq_data *)

\* One record of the file's 'questions' list; has_q / has_a say whether the
\* record holds the key.
Rec(q, a) == [has_q |-> TRUE, question |-> q, has_a |-> TRUE, answer |-> a]
RecNoAnswer(q) == [has_q |-> TRUE, question |-> q, has_a |-> FALSE, answer |-> ""]
RecNoQuestion(a) == [has_q |-> FALSE, question |-> <<>>, has_a |-> TRUE, answer |-> a]

\* A file: missing, not JSON ("invalid"), JSON whose top level is a list
\* ("toplist"), an object without 'questions' ("nokey"), or an object with it.
File(kind, records) == [kind |-> kind, questions |-> records]
Unread == File("unread", <<>>)

AbsentData == [state |-> "absent", columns |-> {}, rows |-> <<>>]
NoneData == [state |-> "none", columns |-> {}, rows |-> <<>>]

\* pd.DataFrame(records): a column for every key some record holds, NaN where
\* a record lacks it.
DataFrame(records) ==
    [state |-> "df",
     columns |-> {c \in {"question", "answer"} :
                    \E i \in 1..Len(records) :
                        IF c = "question" THEN records[i].has_q ELSE records[i].has_a},
     rows |-> [i \in 1..Len(records) |->
                 [question |-> records[i].question, q_nan |-> ~records[i].has_q,
                  answer |-> records[i].answer, a_nan |-> ~records[i].has_a]]]

\* DataFrame.empty: no rows or no columns.
IsEmpty(df) == Len(df.rows) = 0 \/ df.columns = {}

\* load_faq_data: the value returned (or the exception that escapes it) and the
\* st.error it shows.
load_faq_data(f) ==
    CASE f.kind = "missing" ->
            [data |-> NoneData, exc |-> "", error |-> "not found"]
      [] f.kind \in {"invalid", "nokey"} ->
            [data |-> NoneData, exc |-> "", error |-> "parse"]
      [] f.kind = "toplist" ->
            [data |-> AbsentData, exc |-> "TypeError", error |-> ""]
      [] OTHER ->
            [data |-> DataFrame(f.questions), exc |-> "", error |-> ""]

----------------------------------------------------------------------------
(* The index build, lines 112-117 *)

Questions(df) == [i \in 1..Len(df.rows) |-> df.rows[i].question]

\* A build block that also requires `not faq_df.empty` leaves an empty frame
\* without an index and raises nothing.
BuildBlockSkipEmpty(df) ==
    IF IsEmpty(df)
    THEN [vectorizer |-> AbsentVectorizer, tfidf_matrix |-> AbsentMatrix,
          exc |-> ""]
    ELSE IF (\E i \in 1..Len(df.rows) : df.rows[i].q_nan)
            \/ Vocabulary(Questions(df)) = {}
    THEN [vectorizer |-> UnfittedVectorizer, tfidf_matrix |-> AbsentMatrix,
          exc |-> "ValueError"]
    ELSE [vectorizer |-> Fit(Questions(df)),
          tfidf_matrix |-> FitTransform(Questions(df)), exc |-> ""]

\* The build block on session state without a vectorizer: the vectorizer and
\* matrix it leaves in session state and the exception that ends the run.
BuildBlock(df) ==
    IF "question" \notin df.columns
    THEN [vectorizer |-> AbsentVectorizer, tfidf_matrix |-> AbsentMatrix,
          exc |-> "KeyError"]
    ELSE IF (\E i \in 1..Len(df.rows) : df.rows[i].q_nan)
            \/ Vocabulary(Questions(df)) = {}
    THEN [vectorizer |-> UnfittedVectorizer, tfidf_matrix |-> AbsentMatrix,
          exc |-> "ValueError"]
    ELSE [vectorizer |-> Fit(Questions(df)),
          tfidf_matrix |-> FitTransform(Questions(df)), exc |-> ""]

----------------------------------------------------------------------------
(* find_most_relevant_question *)

NoMatch ==
    [tag |-> "none", question |-> <<>>, answer |-> "", a_nan |-> FALSE,
     idx |-> 0, sim |-> <<0, 1>>]

Raised(e) ==
    [tag |-> e, question |-> <<>>, answer |-> "", a_nan |-> FALSE,
     idx |-> 0, sim |-> <<0, 1>>]

\* The returned (question, answer), None/None as NoMatch, with the locals
\* most_similar_idx and highest_similarity_score kept beside them.
find_most_relevant_question(user_query, faq_df, vec, matrix) ==
    IF faq_df.state = "none" \/ IsEmpty(faq_df) THEN NoMatch
    ELSE IF vec.state # "fitted" THEN Raised("NotFittedError")
    ELSE LET query_tfidf == Transform(vec, user_query)
             cosine_similarities == CosineSimilarities(query_tfidf, matrix)
             most_similar_idx == Argmax(cosine_similarities)
             highest_similarity_score == cosine_similarities[most_similar_idx]
             row == faq_df.rows[most_similar_idx]
         IN IF BelowThreshold(highest_similarity_score) THEN NoMatch
            ELSE IF "answer" \notin faq_df.columns THEN Raised("KeyError")
            ELSE [tag |-> "match", question |-> row.question,
                  answer |-> row.answer, a_nan |-> row.a_nan,
                  idx |-> most_similar_idx, sim |-> highest_similarity_score]

----------------------------------------------------------------------------
(* Inputs *)

\* A document on which a one-term query scores exactly 0.2 when every term has
\* the same idf: term counts 1, 4, 2, 2, so the row's norm is 5 times the
\* weight of "return".
BoundaryText ==
    <<"return", "order", "order", "order", "order",
      "track", "track", "ship", "ship">>

\* The texts questions and queries are drawn from.
QuestionTexts ==
    { <<>>, <<"the">>, <<"x">>, <<"return">>, <<"Return", "the">>,
      <<"return", "return">>, <<"order">>, <<"return", "order">>,
      <<"ORDER", "is", "return">>, <<"track", "order">>, <<"weather">>,
      BoundaryText }

AnswerOf(i) == <<"A1", "A2", "A3", "A4">>[i]

\* Well-formed corpora of up to MaxCorpus entries (the empty one included).
Corpora ==
    UNION { { [i \in 1..n |-> Rec(qs[i], AnswerOf(i))] : qs \in [1..n -> QuestionTexts] }
            : n \in 0..MaxCorpus }

\* The corpus files a session may find on disk.
SessionFiles ==
    { File("missing", <<>>), File("invalid", <<>>), File("toplist", <<>>),
      File("nokey", <<>>), File("ok", <<>>),
      File("ok", <<Rec(<<"return">>, "A1")>>),
      File("ok", <<Rec(<<"return">>, "")>>),
      File("ok", <<Rec(<<"the">>, "A1")>>),
      File("ok", <<RecNoAnswer(<<"return">>)>>),
      File("ok", <<RecNoQuestion("A1")>>),
      File("ok", <<RecNoAnswer(<<"return">>), Rec(<<"weather">>, "A2")>>),
      File("ok", <<Rec(<<"return">>, "A1"), Rec(<<"Return", "the">>, "A2")>>) }

\* The prompts a user submits; st.chat_input never yields an empty one.
Prompts == { <<"return">>, <<"weather">> }
NoPrompt == <<>>

Keys == {"", "k"}

----------------------------------------------------------------------------
(* Chat messages *)

NoMessages == [present |-> FALSE, list |-> <<>>]

UserMessage(p) == [role |-> "user", kind |-> "prompt", text |-> p, context |-> ""]

\* The assistant's message: Gemini's reply to (user_query, context_answer), the
\* apology get_gemini_response returns when the API raises, or the fallback.
AssistantMessage(kind, q, context) ==
    [role |-> "assistant", kind |-> kind, text |-> q, context |-> context]

NoBranch == [kind |-> "none", query |-> <<>>, context |-> ""]

----------------------------------------------------------------------------
(* The session: one script run per rerun *)

Init ==
    /\ file \in SessionFiles
    /\ api_key = ""
    /\ faq_data = AbsentData
    /\ vectorizer = AbsentVectorizer
    /\ tfidf_matrix = AbsentMatrix
    /\ messages = NoMessages
    /\ pc = "idle"
    /\ prompt = NoPrompt
    /\ relevant = NoMatch
    /\ outcome = "none"
    /\ shown = FALSE
    /\ st_error = ""
    /\ load_src = Unread
    /\ branch = NoBranch
    /\ match_log = {}

\* The file on disk is edited between runs.
FileChange(f) ==
    /\ pc = "idle"
    /\ f # file
    /\ file' = f
    /\ UNCHANGED <<api_key, faq_data, vectorizer, tfidf_matrix, messages, pc,
                   prompt, relevant, outcome, shown, st_error, load_src,
                   branch, match_log>>

\* The checks with the API-key check left out.
PreMatchChecksNoKey(key, faq_df) ==
    IF faq_df.state = "none" THEN "stop: no data" ELSE "running"

\* Lines 139-147: the checks between the user message and the retrieval; each
\* failed check ends the run with st.stop().
PreMatchChecks(key, faq_df) ==
    IF key = "" THEN "stop: no key"
    ELSE IF faq_df.state = "none" THEN "stop: no data"
    ELSE "running"

\* Lines 84-147: a rerun with the key the user has entered and the prompt
\* (if any) submitted through the chat input the previous run rendered.
ScriptRun(key, p) ==
    /\ pc = "idle"
    /\ p # NoPrompt => shown /\ Len(messages.list) < MaxMsgs
    /\ LET loading == faq_data.state = "absent"
           loaded == IF loading THEN load_faq_data(file)
                     ELSE [data |-> faq_data, exc |-> "", error |-> ""]
           faq_df == loaded.data
           building == loaded.exc = "" /\ faq_df.state = "df"
                       /\ vectorizer.state = "absent"
           built == IF building THEN BuildBlock(faq_df)
                    ELSE [vectorizer |-> vectorizer,
                          tfidf_matrix |-> tfidf_matrix, exc |-> ""]
           crashed == IF loaded.exc # "" THEN loaded.exc ELSE built.exc
           history == IF messages.present THEN messages.list ELSE <<>>
       IN /\ api_key' = key
          /\ branch' = NoBranch
          /\ faq_data' = faq_df
          /\ load_src' = IF loading THEN file ELSE load_src
          /\ st_error' = IF loading THEN loaded.error ELSE st_error
          /\ vectorizer' = built.vectorizer
          /\ tfidf_matrix' = built.tfidf_matrix
          /\ IF crashed # ""
             THEN /\ outcome' = crashed
                  /\ shown' = FALSE
                  /\ pc' = "idle"
                  /\ UNCHANGED <<messages, prompt>>
             ELSE /\ shown' = TRUE
                  /\ IF p = NoPrompt
                     THEN /\ messages' = [present |-> TRUE, list |-> history]
                          /\ outcome' = "done"
                          /\ pc' = "idle"
                          /\ UNCHANGED prompt
                     ELSE /\ messages' = [present |-> TRUE,
                                          list |-> Append(history, UserMessage(p))]
                          /\ prompt' = p
                          /\ outcome' = PreMatchChecks(key, faq_df)
                          /\ pc' = IF outcome' = "running" THEN "match" ELSE "idle"
    /\ UNCHANGED <<file, relevant, match_log>>

\* A Match that vectorizes the query with fit_transform, refitting the
\* vectorizer held in session state.
MatchRefit ==
    /\ pc = "match"
    /\ vectorizer.state = "fitted"
    /\ vectorizer' = Fit(<<prompt>>)
    /\ relevant' = NoMatch
    /\ match_log' = match_log \cup {<<prompt, NoMatch>>}
    /\ pc' = "respond"
    /\ UNCHANGED <<file, api_key, faq_data, tfidf_matrix, messages, prompt,
                   outcome, shown, st_error, load_src, branch>>

\* Lines 152-157: the call of find_most_relevant_question.
Match ==
    /\ pc = "match"
    /\ LET r == IF vectorizer.state = "absent" \/ tfidf_matrix.state = "absent"
                THEN Raised("AttributeError")
                ELSE find_most_relevant_question(prompt, faq_data, vectorizer,
                                                 tfidf_matrix)
       IN IF r.tag \in {"none", "match"}
          THEN /\ relevant' = r
               /\ match_log' = match_log \cup {<<prompt, r>>}
               /\ pc' = "respond"
               /\ UNCHANGED outcome
          ELSE /\ outcome' = r.tag
               /\ pc' = "idle"
               /\ UNCHANGED <<relevant, match_log>>
    /\ UNCHANGED <<file, api_key, faq_data, vectorizer, tfidf_matrix, messages,
                   prompt, shown, st_error, load_src, branch>>

\* bool(relevant_a): None and "" are falsy, NaN is truthy.
Truthy(r) == r.tag = "match" /\ (r.a_nan \/ r.answer # "")

\* Lines 159-170: paraphrase through Gemini or fall back, and append the reply.
Respond(api_ok) ==
    /\ pc = "respond"
    /\ LET kind == IF ~Truthy(relevant) THEN "fallback"
                   ELSE IF api_ok THEN "gemini" ELSE "apology"
           context == IF Truthy(relevant)
                      THEN (IF relevant.a_nan THEN "nan" ELSE relevant.answer)
                      ELSE ""
       IN /\ branch' = [kind |-> IF Truthy(relevant) THEN "gemini" ELSE "fallback",
                        query |-> IF Truthy(relevant) THEN prompt ELSE <<>>,
                        context |-> context]
          /\ messages' = [messages EXCEPT !.list =
                             Append(@, AssistantMessage(kind,
                                 IF Truthy(relevant) THEN prompt ELSE <<>>, context))]
    /\ outcome' = "done"
    /\ pc' = "idle"
    /\ UNCHANGED <<file, api_key, faq_data, vectorizer, tfidf_matrix, prompt,
                   relevant, shown, st_error, load_src, match_log>>

Next ==
    \/ \E f \in SessionFiles : FileChange(f)
    \/ \E key \in Keys, p \in Prompts \cup {NoPrompt} : ScriptRun(key, p)
    \/ Match
    \/ \E api_ok \in BOOLEAN : Respond(api_ok)

Spec == Init /\ [][Next]_vars

----------------------------------------------------------------------------
(* Build followed by Match on every corpus and query text *)

MatchInit ==
    /\ file = File("missing", <<>>)
    /\ api_key = "k"
    /\ faq_data \in {DataFrame(c) : c \in Corpora}
    /\ vectorizer = AbsentVectorizer
    /\ tfidf_matrix = AbsentMatrix
    /\ messages = NoMessages
    /\ pc = "build"
    /\ prompt \in QuestionTexts
    /\ relevant = NoMatch
    /\ outcome = "none"
    /\ shown = FALSE
    /\ st_error = ""
    /\ load_src = Unread
    /\ branch = NoBranch
    /\ match_log = {}

\* Lines 112-117 on the drawn corpus.
Build ==
    /\ pc = "build"
    /\ LET built == BuildBlock(faq_data)
       IN /\ vectorizer' = built.vectorizer
          /\ tfidf_matrix' = built.tfidf_matrix
          /\ outcome' = IF built.exc = "" THEN "built" ELSE built.exc
          /\ pc' = IF built.exc = "" THEN "match" ELSE "idle"
    /\ UNCHANGED <<file, api_key, faq_data, messages, prompt, relevant, shown,
                   st_error, load_src, branch, match_log>>

MatchNext == Build \/ Match

MatchSpec == MatchInit /\ [][MatchNext]_vars

----------------------------------------------------------------------------
(* Properties of Build followed by Match, checked under MatchSpec *)

\* The similarities of the current query to the entries of the built index.
Sims == CosineSimilarities(Transform(vectorizer, prompt), tfidf_matrix)

\* The sign of (similarity x) - (similarity y).
SimCmp(x, y) == FracCmp(x[1], x[2], y[1], y[2])

\* The similarity is 0.2 or more, which is 1/25 or more when squared.
Relevant(x) == FracCmp(x[1], x[2], 1, 25) >= 0

\* The positions holding the maximum similarity.
Maximisers == {i \in DOMAIN Sims : \A j \in DOMAIN Sims : SimCmp(Sims[j], Sims[i]) <= 0}

Lowest(S) == CHOOSE i \in S : \A j \in S : i <= j

ReturnsEntry(i) ==
    /\ relevant.tag = "match"
    /\ relevant.idx = i
    /\ relevant.question = faq_data.rows[i].question
    /\ relevant.answer = faq_data.rows[i].answer

\* C1: Match returns NoMatch exactly when every similarity is strictly below
\* 0.2, and otherwise (0.2 itself included) returns the entry at a position
\* holding the maximum similarity.
C1_ThresholdDecision ==
    pc = "respond" =>
        /\ relevant.tag = "none" <=> \A i \in DOMAIN Sims : ~Relevant(Sims[i])
        /\ relevant.tag # "none" =>
              /\ relevant.idx \in Maximisers
              /\ ReturnsEntry(relevant.idx)

\* A match whose similarity is exactly 0.2.
C1_AtThreshold ==
    /\ pc = "respond"
    /\ relevant.tag = "match"
    /\ FracCmp(relevant.sim[1], relevant.sim[2], 1, 25) = 0

\* C2 as stated: whenever several entries share the maximum similarity, Match
\* returns the lowest-index one of them.
C2_Original ==
    (pc = "respond" /\ Cardinality(Maximisers) >= 2) =>
        ReturnsEntry(Lowest(Maximisers))

\* C2 amended: whenever several entries share a maximum similarity of 0.2 or
\* more, Match returns the lowest-index one of them.
C2_TieBreak ==
    (pc = "respond" /\ Cardinality(Maximisers) >= 2
        /\ \E i \in Maximisers : Relevant(Sims[i])) =>
        ReturnsEntry(Lowest(Maximisers))

\* Two entries with the same question text, queried with that text, and the
\* first of them returned.
C2_DuplicateQueried ==
    /\ pc = "respond"
    /\ Len(faq_data.rows) >= 2
    /\ faq_data.rows[1].question = prompt
    /\ faq_data.rows[2].question = prompt
    /\ Maximisers = {1, 2}
    /\ ReturnsEntry(1)

\* The query's vector over the index vocabulary is zero.
ZeroQuery == TermSet(Analyze(prompt)) \cap vectorizer.vocabulary = {}

\* C3: a query with no term of the index vocabulary (empty, stop words only,
\* or unseen terms only) yields NoMatch.
C3_ZeroQueryNoMatch ==
    (pc = "respond" /\ ZeroQuery) => relevant = NoMatch

\* A query of unseen terms answered with NoMatch.
C3_UnseenTerms ==
    /\ pc = "respond"
    /\ Analyze(prompt) # <<>>
    /\ ZeroQuery
    /\ relevant = NoMatch

\* The term counts of analysed texts a and b are proportional: their tf-idf
\* rows point the same way.
Proportional(a, b) ==
    /\ TermSet(a) = TermSet(b)
    /\ \A t \in TermSet(a), u \in TermSet(a) :
          Count(a, t) * Count(b, u) = Count(a, u) * Count(b, t)

\* The entries whose question has term counts proportional to the query's.
Equivalents ==
    {j \in 1..Len(faq_data.rows) :
        Proportional(Analyze(faq_data.rows[j].question), Analyze(prompt))}

\* C4 as stated: a query equal verbatim to the question of an entry returns
\* that entry with similarity 1.0.
C4_Original ==
    pc = "respond" =>
        \A k \in 1..Len(faq_data.rows) :
            faq_data.rows[k].question = prompt =>
                /\ ReturnsEntry(k)
                /\ relevant.sim[1] = relevant.sim[2]

\* C4 amended: a query equal verbatim to the question of an entry, when that
\* question keeps at least one term, returns with similarity 1.0 the
\* lowest-index entry whose question has term counts proportional to the
\* query's, which is that entry itself when no earlier entry is such.
C4_Reflexive ==
    pc = "respond" =>
        \A k \in 1..Len(faq_data.rows) :
            (faq_data.rows[k].question = prompt /\ Analyze(prompt) # <<>>) =>
                /\ ReturnsEntry(Lowest(Equivalents))
                /\ relevant.sim[1] = relevant.sim[2]
                /\ (\A j \in 1..(k - 1) : j \notin Equivalents) => ReturnsEntry(k)

\* The second entry's own question returns the second entry.
C4_SecondEntry ==
    /\ pc = "respond"
    /\ Len(faq_data.rows) >= 2
    /\ faq_data.rows[2].question = prompt
    /\ ReturnsEntry(2)
    /\ relevant.sim[1] = relevant.sim[2]

----------------------------------------------------------------------------
(* Properties of the session, checked under Spec *)

\* C5 as stated: in a run that reached `if relevant_a:`, get_gemini_response
\* was called, with (prompt, matched answer), exactly when Match returned an
\* entry, and the fallback was taken exactly when Match returned NoMatch.
C5_GeminiIffMatch ==
    branch.kind # "none" =>
        /\ branch.kind = "gemini" <=> relevant.tag = "match"
        /\ branch.kind = "fallback" <=> relevant.tag = "none"
        /\ branch.kind = "gemini" =>
              /\ branch.query = prompt
              /\ ~relevant.a_nan => branch.context = relevant.answer

\* The file is one load_faq_data is to reject: missing, not JSON, top level
\* not an object, no 'questions' key, or a record lacking a key.
Malformed(f) ==
    \/ f.kind \in {"missing", "invalid", "toplist", "nokey"}
    \/ /\ f.kind = "ok"
       /\ \E i \in 1..Len(f.questions) :
             ~f.questions[i].has_q \/ ~f.questions[i].has_a

\* C6 as stated: once load_faq_data has read a missing or malformed file, the
\* failure has been reported (by the loader's st.error, or by an exception
\* that ends the run), no index is built and no Match call is made.
C6_LoadFailureStopsMatch ==
    Malformed(load_src) =>
        /\ st_error # "" \/ outcome \in {"TypeError", "KeyError"}
        /\ vectorizer.state = "absent"
        /\ tfidf_matrix.state = "absent"
        /\ pc \notin {"match", "respond"}
        /\ match_log = {}

\* The corpus held in session state has zero entries.
EmptyCorpus == faq_data.state = "df" /\ Len(faq_data.rows) = 0

\* C7: with a corpus of zero entries the build raises (every run ends in the
\* uncaught error, before the chat input is rendered), no index is produced,
\* and no query is ever answered with NoMatch or anything else.
C7_EmptyCorpusFatal ==
    EmptyCorpus =>
        /\ vectorizer.state = "absent"
        /\ tfidf_matrix.state = "absent"
        /\ outcome = "KeyError"
        /\ ~shown
        /\ pc = "idle"
        /\ match_log = {}
        /\ branch = NoBranch
        /\ messages = NoMessages

\* A run has failed on a corpus of zero entries.
C7_EmptyCorpusRun ==
    /\ EmptyCorpus
    /\ load_src = File("ok", <<>>)
    /\ outcome = "KeyError"

\* C8 as stated: vectorizer and tfidf_matrix are present or absent together,
\* and a present index is the one built from the corpus in session state.
C8_IndexMatchesCorpus ==
    /\ vectorizer.state = "absent" <=> tfidf_matrix.state = "absent"
    /\ vectorizer.state # "absent" =>
          /\ faq_data.state = "df"
          /\ vectorizer = Fit(Questions(faq_data))
          /\ tfidf_matrix = FitTransform(Questions(faq_data))

\* C9: the step that calls find_most_relevant_question changes neither the
\* corpus, the vectorizer, the matrix nor the chat history, and all calls made
\* with the same query have returned the same result.
C9_MatchPure ==
    /\ [][pc = "match" =>
            UNCHANGED <<file, faq_data, vectorizer, tfidf_matrix, messages>>]_vars
    /\ [](\A a \in match_log, b \in match_log : a[1] = b[1] => a[2] = b[2])

\* A query matched a second time after another query was matched in between.
C9_Rematched ==
    /\ pc = "respond"
    /\ Len(messages.list) = 5
    /\ messages.list[1].text = prompt
    /\ messages.list[2].role = "assistant"
    /\ messages.list[3].text # prompt
    /\ messages.list[4].role = "assistant"
    /\ messages.list[5].text = prompt
    /\ Cardinality(match_log) = 2

IsAppend(old, new) == Len(new) = Len(old) + 1 /\ SubSeq(new, 1, Len(old)) = old

\* C10: the history only grows, one message at a time; a run that takes a
\* submitted prompt appends its user message whatever the checks decide; an
\* assistant message is appended only with a non-empty API key and a loaded
\* corpus, directly after the user message of the prompt it answers; so every
\* assistant message is immediately preceded by a user message.
C10_HistoryOrdered ==
    /\ [][/\ messages.present => messages'.present
          /\ messages'.list # messages.list =>
                /\ messages'.present
                /\ IsAppend(messages.list, messages'.list)
          /\ (pc = "idle" /\ file' = file
                /\ outcome' \in {"stop: no key", "stop: no data", "running"}) =>
                messages'.list = Append(messages.list, UserMessage(prompt'))
          /\ (messages'.list # messages.list
                /\ messages'.list[Len(messages'.list)].role = "assistant") =>
                /\ api_key # ""
                /\ faq_data.state = "df"
                /\ messages.list # <<>>
                /\ messages.list[Len(messages.list)] = UserMessage(prompt)
         ]_vars
    /\ [](\A i \in 1..Len(messages.list) :
            messages.list[i].role = "assistant" =>
                /\ i > 1
                /\ messages.list[i - 1].role = "user"
                /\ messages.list[i].kind \in {"gemini", "apology"} =>
                      messages.list[i].text = messages.list[i - 1].text)

\* A history holding an unanswered user message followed by an answered one.
C10_UnansweredThenAnswered ==
    /\ Len(messages.list) = 3
    /\ messages.list[1].role = "user"
    /\ messages.list[2].role = "user"
    /\ messages.list[3].role = "assistant"

====
